---- MODULE Spec2Model ----
(***************************************************************************)
(* HumanSign keystroke notary: the archive packager (FileHandler), the    *)
(* archive reader with its security screens (SecurityUtils), the two      *)
(* scorers (FileHandler.analyzeBiometrics, AIDetector) and the forensic   *)
(* verifier (AnalysisEngine), modelled from the TypeScript sources.       *)
(*                                                                         *)
(* Conventions.  Times are integers in milliseconds; the wall clock        *)
(* (Date.now()) is the variable now.  A text is a sequence of one-         *)
(* character strings.  A SHA-256 digest is modelled symbolically as a      *)
(* record wrapping its preimage (collision freedom).  Ratios compared      *)
(* with a decimal threshold in the source are compared here after cross    *)
(* multiplication, so every test is exact integer arithmetic.              *)
(***************************************************************************)
EXTENDS Integers, Sequences, FiniteSets, TLC

----------------------------------------------------------------------------
(* Program constants *)

MaxFileSize == 10485760
MaxAge == 86400000
FutureSkew == 60000
OutlierMs == 5000
SuspiciousGapMs == 30000
PastePenalty == 10
RhythmPenalty == 30
SpeedPenalty == 20
CorrectionPenalty == 15

(* Bounds of the model *)

MaxRuns == 2
BurstLen == 16
MaxTicks == 2
MaxCalls == 2
MaxInserts == 1
MaxEvents == 2
MaxDownloads == 2

(* State *)

VARIABLES
  now,      \* the wall clock, Date.now()
  ticks,    \* how many times the clock has advanced
  session,  \* the text and the BiometricMetadata object handed to the packager
  pkg,      \* createHumanSignFile: position and locals
  file,     \* the archive: size, container, members
  call,     \* analyzeHumanSignFile: position, locals, the steps it has run
  result,   \* outcome of the latest analyzeHumanSignFile call
  prev,     \* outcome of the call before it on the same archive
  hook,     \* useBiometricCapture: state, refs and the stats of the last render
  page      \* NotaryPage: download status, the creation in flight, timers

vars == <<now, ticks, session, pkg, file, call, result, prev, hook, page>>

----------------------------------------------------------------------------
(* Arithmetic helpers *)

Max(a, b) == IF a >= b THEN a ELSE b

Min(a, b) == IF a <= b THEN a ELSE b

RECURSIVE SumSeq(_)
SumSeq(s) ==
  IF Len(s) = 0 THEN 0
  ELSE IF Len(s) = 1 THEN s[1]
  ELSE LET h == Len(s) \div 2
       IN  SumSeq(SubSeq(s, 1, h)) + SumSeq(SubSeq(s, h + 1, Len(s)))

SumSquares(s) == SumSeq([i \in 1..Len(s) |-> s[i] * s[i]])

RECURSIVE Gcd(_, _)
Gcd(a, b) == IF b = 0 THEN a ELSE Gcd(b, a % b)

RECURSIVE GcdSeq(_)
GcdSeq(s) ==
  IF Len(s) = 0 THEN 0
  ELSE IF Len(s) = 1 THEN s[1]
  ELSE LET h == Len(s) \div 2
       IN  Gcd(GcdSeq(SubSeq(s, 1, h)), GcdSeq(SubSeq(s, h + 1, Len(s))))

RECURSIVE Flatten(_)
Flatten(ss) ==
  IF Len(ss) = 0 THEN << >>
  ELSE IF Len(ss) = 1 THEN ss[1]
  ELSE LET h == Len(ss) \div 2
       IN  Flatten(SubSeq(ss, 1, h)) \o Flatten(SubSeq(ss, h + 1, Len(ss)))

Count(s, P(_)) == Len(SelectSeq(s, P))

\* n * sum(t^2) - (sum t)^2 : n^2 times the population variance of s
Spread(s) == Len(s) * SumSquares(s) - SumSeq(s) * SumSeq(s)

----------------------------------------------------------------------------
(* Event model (types/index.ts KeystrokeEvent) *)

\* a field name is in e.missing when the JSON object lacks that property
EventFields == {"id", "timestamp", "absoluteTime", "type", "sessionId", "data"}

Event(id, ts, abs, type, sid, key, pasteLength) ==
  [id |-> id, timestamp |-> ts, absoluteTime |-> abs, type |-> type,
   sessionId |-> sid, key |-> key, pasteLength |-> pasteLength, missing |-> {}]

IsKeyDown(e) == e.type = "keydown"

IsKeyEvent(e) == e.type = "keydown" \/ e.type = "keyup"

IsPaste(e) == e.type = "paste"

IsBackspaceDown(e) == e.type = "keydown" /\ e.key = "Backspace"

\* differences of consecutive timestamps of a sequence of events
Diffs(evs) == [i \in 1..(Len(evs) - 1) |-> evs[i + 1].timestamp - evs[i].timestamp]

----------------------------------------------------------------------------
(* SecurityUtils (securityUtils.ts) *)

\* variant: the operands of the age are swapped
ReplayAgeSwapped(metadata) == metadata.sessionStart - now > MaxAge

\* Date.now() - metadata.sessionStart > maxAge
isReplayAttack(metadata) == now - metadata.sessionStart > MaxAge

detectTimestampManipulation(events) ==
  IF Len(events) < 2 THEN FALSE
  ELSE \/ \E i \in 2..Len(events) : events[i].timestamp < events[i - 1].timestamp
       \/ \E i \in 1..Len(events) : events[i].absoluteTime > now + FutureSkew

\* every property present and truthy; a number 0 is falsy in JavaScript
validateEventStructure(events) ==
  \A i \in 1..Len(events) :
     /\ events[i].missing = {}
     /\ events[i].timestamp # 0
     /\ events[i].absoluteTime # 0

SanitizeChar(c) ==
  CASE c = "<"  -> <<"&", "l", "t", ";">>
    [] c = ">"  -> <<"&", "g", "t", ";">>
    [] c = "\"" -> <<"&", "q", "u", "o", "t", ";">>
    [] c = "'"  -> <<"&", "#", "x", "2", "7", ";">>
    [] c = "/"  -> <<"&", "#", "x", "2", "F", ";">>
    [] OTHER    -> <<c>>

sanitizeContent(content) == Flatten([i \in 1..Len(content) |-> SanitizeChar(content[i])])

----------------------------------------------------------------------------
(* CryptoUtils (fileHandler.ts) *)

Null == [null |-> TRUE]

DemoKey == "human_sign_demo_key_2024"

SessionKey == "hs_session_key"

\* SHA-256 as a collision-free digest: the digest determines its preimage
createHash(content) == [sha256 |-> content]

\* JSON.stringify(signatureData) + secretKey, with timestamp: Date.now()
SignatureString(metadata, secretKey) ==
  [sessionId |-> metadata.sessionId,
   contentHash |-> metadata.contentHash,
   eventCount |-> Len(metadata.events),
   finalTextLength |-> Len(metadata.finalText),
   timestamp |-> now,
   key |-> secretKey]

createSignature(metadata, secretKey) == createHash(SignatureString(metadata, secretKey))

verifySignature(metadata, signature, secretKey) ==
  signature = createSignature(metadata, secretKey)

generateSecretKey == SessionKey

----------------------------------------------------------------------------
(* Behavioral scorer (fileHandler.ts) *)

InRange(t) == t > 0 /\ t < OutlierMs

\* intervals between consecutive key-down events, outliers dropped
KeyDownTimings(events) == SelectSeq(Diffs(SelectSeq(events, IsKeyDown)), InRange)

\* variant: the mean is not subtracted before squaring
VarianceWithoutMean(numbers) ==
  IF Len(numbers) = 0 THEN 0 ELSE 100 * (SumSquares(numbers) \div Len(numbers))

\* Math.round(variance * 100): the variance in hundredths, rounded half up
calculateVariance(numbers) ==
  IF Len(numbers) = 0 THEN 0
  ELSE LET n2 == Len(numbers) * Len(numbers)
           d  == Spread(numbers)
       IN  100 * (d \div n2) + (200 * (d % n2) + n2) \div (2 * n2)

preProcessEvents(events) ==
  LET timings == KeyDownTimings(events)
  IN  [totalEvents |-> Len(events),
       keyEvents |-> Count(events, IsKeyEvent),
       pasteEvents |-> Count(events, IsPaste),
       backspaceCount |-> Count(events, IsBackspaceDown),
       timingSum |-> SumSeq(timings),
       timingCount |-> Len(timings),
       timingVariance |-> calculateVariance(timings),
       sessionDuration |-> IF Len(events) > 0
                           THEN events[Len(events)].absoluteTime - events[1].absoluteTime
                           ELSE 0]

BiometricVerdict(humanScore) ==
  IF humanScore >= 80 THEN "VERIFIED_HUMAN"
  ELSE IF humanScore >= 60 THEN "LIKELY_HUMAN"
  ELSE IF humanScore >= 40 THEN "SUSPICIOUS"
  ELSE IF humanScore >= 20 THEN "LIKELY_AI"
  ELSE "DETECTED_AI"

\* timingVariance is in hundredths, sessionDuration in milliseconds
analyzeBiometrics(metadata) ==
  LET processed == preProcessEvents(metadata.events)
      hasPaste  == processed.pasteEvents > 0
      tooSteady == processed.timingVariance < 1000 /\ processed.keyEvents > 20
      tooFast   == processed.keyEvents * 200 > 3 * Max(processed.sessionDuration, 1000)
      noFixes   == /\ processed.backspaceCount * 50 < Max(processed.keyEvents, 1)
                   /\ processed.keyEvents > 50
      humanScore == 100 - (IF hasPaste THEN processed.pasteEvents * PastePenalty ELSE 0)
                        - (IF tooSteady THEN RhythmPenalty ELSE 0)
                        - (IF tooFast THEN SpeedPenalty ELSE 0)
                        - (IF noFixes THEN CorrectionPenalty ELSE 0)
      anomalies == (IF hasPaste THEN <<"Detected paste events">> ELSE << >>)
                   \o (IF tooSteady THEN <<"Extremely consistent typing rhythm detected">> ELSE << >>)
                   \o (IF tooFast THEN <<"Unusually high typing speed detected">> ELSE << >>)
                   \o (IF noFixes THEN <<"Very few corrections made">> ELSE << >>)
  IN  [humanScore |-> Max(0, Min(100, humanScore)),
       verdict |-> BiometricVerdict(humanScore),
       anomalies |-> anomalies,
       metrics |-> processed]

----------------------------------------------------------------------------
(* AI-likelihood scorer (aiDetector.ts) *)

\* a quotient num / den with den > 0, kept exact
Ratio(num, den) == [num |-> num, den |-> den]

Abs(x) == IF x < 0 THEN 0 - x ELSE x

AbsSeq(s) == [i \in 1..Len(s) |-> Abs(s[i])]

\* std(ts) / mean(ts) < p / q for a non-empty ts, as JavaScript evaluates it:
\* NaN (0/0) and Infinity compare false, a negative mean gives a quotient <= 0
CoefficientBelow(ts, p, q) ==
  LET g  == Max(GcdSeq(AbsSeq(ts)), 1)
      sc == [i \in 1..Len(ts) |-> ts[i] \div g]
      d  == Spread(sc)
      sm == SumSeq(sc)
  IN  IF SumSeq(ts) < 0 THEN TRUE
      ELSE IF SumSeq(ts) = 0 THEN FALSE
      ELSE d <= (p * p * sm * sm - 1) \div (q * q)

calculateTimings(keyEvents) == SelectSeq(Diffs(keyEvents), InRange)

IsThinkingPause(t) == t > 1000

calculateRhythmFeatures(timings) ==
  IF Len(timings) = 0
  THEN [avgInterval |-> Ratio(0, 1), consistency |-> << >>, thinkingPauses |-> 0]
  ELSE [avgInterval |-> Ratio(SumSeq(timings), Len(timings)),
        consistency |-> timings,
        thinkingPauses |-> Count(timings, IsThinkingPause)]

detectBurstPatterns(timings) ==
  IF Len(timings) < 3 THEN Ratio(0, 1)
  ELSE Ratio(Cardinality({i \in 3..Len(timings) :
                             /\ timings[i - 2] < 100
                             /\ timings[i - 1] < 100
                             /\ timings[i] > 500}),
             Len(timings) - 2)

\* variant: the paste events are counted, their lengths are not added
PasteEventCount(pasteEvents) == Len(pasteEvents)

PasteLengthSum(pasteEvents) ==
  SumSeq([i \in 1..Len(pasteEvents) |-> pasteEvents[i].pasteLength])

\* rhythmConsistency holds the intervals whose std/mean it is (<< >> for 0);
\* the two content features (textComplexity, wordLengthVariance) feed no rule
extractFeatures(metadata) ==
  LET events == metadata.events
      keyEvents == SelectSeq(events, IsKeyDown)
      pasteEvents == SelectSeq(events, IsPaste)
      timings == calculateTimings(keyEvents)
      rhythmFeatures == calculateRhythmFeatures(timings)
      backspaceCount == Count(events, IsBackspaceDown)
      pasteLength == PasteLengthSum(pasteEvents)
  IN  [avgKeyInterval |-> rhythmFeatures.avgInterval,
       backspaceRatio |-> Ratio(backspaceCount, Max(Len(keyEvents), 1)),
       pasteRatio |-> Ratio(pasteLength, Max(Len(metadata.finalText), 1)),
       eventDensity |-> Ratio(Len(keyEvents), Max(Len(metadata.finalText), 1)),
       rhythmConsistency |-> rhythmFeatures.consistency,
       burstPattern |-> detectBurstPatterns(timings),
       thinkingPauses |-> rhythmFeatures.thinkingPauses]

\* features.consistency < p/q; a property the object lacks reads undefined,
\* and undefined < x is false
ConsistencyBelow(features, p, q) ==
  /\ "consistency" \in DOMAIN features
  /\ \/ features.consistency = << >>
     \/ CoefficientBelow(features.consistency, p, q)

predictAIProbability(features) ==
  LET aiScore ==
        (IF ConsistencyBelow(features, 3, 10) THEN 25
         ELSE IF ConsistencyBelow(features, 5, 10) THEN 15 ELSE 0)
        + (IF features.burstPattern.num * 10 > features.burstPattern.den THEN 20 ELSE 0)
        + (IF features.backspaceRatio.num * 50 < features.backspaceRatio.den THEN 15 ELSE 0)
        + (IF features.pasteRatio.num * 10 > features.pasteRatio.den THEN 20 ELSE 0)
        + (IF features.eventDensity.num > 2 * features.eventDensity.den THEN 10 ELSE 0)
        + (IF /\ features.thinkingPauses < 2
              /\ features.avgKeyInterval.num < 200 * features.avgKeyInterval.den
           THEN 10 ELSE 0)
  IN  Min(100, aiScore)

analyzeForAI(metadata) ==
  LET features == extractFeatures(metadata)
      aiProbability == predictAIProbability(features)
      redFlags ==
        (IF ConsistencyBelow(features, 3, 10)
         THEN <<"Extremely consistent typing rhythm detected">> ELSE << >>)
        \o (IF features.burstPattern.num * 10 > features.burstPattern.den
            THEN <<"Burst typing pattern suggests automated input">> ELSE << >>)
        \o (IF /\ features.backspaceRatio.num * 50 < features.backspaceRatio.den
               /\ Len(metadata.events) > 50
            THEN <<"Very few corrections made, unusual for human typing">> ELSE << >>)
        \o (IF features.pasteRatio.num * 10 > features.pasteRatio.den
            THEN <<"Significant paste operations detected">> ELSE << >>)
        \o (IF features.thinkingPauses < 2 /\ Len(metadata.events) > 100
            THEN <<"Lack of natural thinking pauses">> ELSE << >>)
  IN  [aiProbability |-> aiProbability,
       humanProbability |-> 100 - aiProbability,
       redFlags |-> redFlags,
       features |-> features,
       confidence |-> Abs(aiProbability - 50) * 2]

----------------------------------------------------------------------------
(* Forensic verifier (analysisEngine.ts) *)

Truthy(h) == h # Null

\* hash of metadata.finalText against the manifest, then the signature
\* re-derived under the demo key
verifyCryptographicIntegrity(metadata, manifest) ==
  IF ~Truthy(manifest.signature) \/ ~Truthy(manifest.contentHash) THEN FALSE
  ELSE IF createHash(metadata.finalText) # manifest.contentHash THEN FALSE
  ELSE verifySignature(metadata, manifest.signature, DemoKey)

analyzeEventGaps(events) ==
  [hasSuspiciousGaps |-> \E i \in 2..Len(events) :
                            events[i].timestamp - events[i - 1].timestamp > SuspiciousGapMs]

IsSingleCharKeyDown(e) == e.type = "keydown" /\ e.key # "" /\ Len(e.key) = 1

reconstructContentFromEvents(events) ==
  LET keyEvents == SelectSeq(events, IsSingleCharKeyDown)
  IN  [i \in 1..Len(keyEvents) |-> keyEvents[i].key]

checkDuplicateTimestamps(events) ==
  Cardinality({events[i].timestamp : i \in 1..Len(events)}) # Len(events)

IsSuperhuman(t) == t < 10

analyzeTimingPatterns(events) ==
  LET timings == Diffs(SelectSeq(events, IsKeyDown))
  IN  [unrealistic |-> \/ Count(timings, IsSuperhuman) > 5
                       \/ Len(timings) > 10 /\ CoefficientBelow(timings, 1, 10)]

verifyEventSequence(events) ==
  \A i \in 1..(Len(events) - 1) : ~(events[i].timestamp > events[i + 1].timestamp)

\* the warnings of detectTampering, in the order the code pushes them
TamperWarnings(metadata, manifest, content) ==
  LET events == metadata.events
      sessionDuration == IF Len(events) > 0
                         THEN events[Len(events)].absoluteTime - events[1].absoluteTime
                         ELSE 0
  IN  (IF Len(events) = 0 THEN <<"No biometric events recorded">> ELSE << >>)
      \o (IF sessionDuration < 1000 /\ Len(events) > 50
          THEN <<"Unnaturally fast typing detected">> ELSE << >>)
      \o (IF analyzeEventGaps(events).hasSuspiciousGaps
          THEN <<"Suspicious timing gaps in events">> ELSE << >>)
      \o (IF reconstructContentFromEvents(events) # content
          THEN <<"Content does not match recorded events">> ELSE << >>)
      \o (IF checkDuplicateTimestamps(events)
          THEN <<"Duplicate timestamps detected - possible data fabrication">> ELSE << >>)
      \o (IF analyzeTimingPatterns(events).unrealistic
          THEN <<"Unrealistic timing patterns detected">> ELSE << >>)
      \o (IF ~verifyEventSequence(events)
          THEN <<"Event sequence integrity compromised">> ELSE << >>)

\* variant: the event count the manifest states is compared with the log
TamperingByFileInfo(metadata, manifest, content) ==
  \/ Len(TamperWarnings(metadata, manifest, content)) > 0
  \/ manifest.fileInfo.eventCount # Len(metadata.events)

detectTampering(metadata, manifest, content) ==
  Len(TamperWarnings(metadata, manifest, content)) > 0

\* variant: the thresholds applied to the score as it is
UnadjustedVerdict(humanScore, aiAnalysis) ==
  IF humanScore >= 75 THEN "verified_human"
  ELSE IF humanScore >= 50 THEN "mixed_content"
  ELSE IF humanScore >= 25 THEN "paste_detected"
  ELSE "ai_detected"

\* lines 239-251: the thresholds applied to the score adjusted by the AI signal
AdjustedVerdict(humanScore, aiAnalysis) ==
  LET adjustedScore ==
        IF aiAnalysis.aiProbability > 70 THEN humanScore - 30
        ELSE IF aiAnalysis.aiProbability > 50 THEN humanScore - 15
        ELSE humanScore
  IN  IF adjustedScore >= 75 THEN "verified_human"
      ELSE IF adjustedScore >= 50 THEN "mixed_content"
      ELSE IF adjustedScore >= 25 THEN "paste_detected"
      ELSE "ai_detected"

\* variant: the tamper flag is not consulted
VerdictIgnoringTamper(humanScore, cryptoValid, isTampered, aiAnalysis) ==
  IF ~cryptoValid THEN "invalid" ELSE AdjustedVerdict(humanScore, aiAnalysis)

\* variant: the crypto flag is not consulted
VerdictIgnoringCrypto(humanScore, cryptoValid, isTampered, aiAnalysis) ==
  IF isTampered THEN "invalid" ELSE AdjustedVerdict(humanScore, aiAnalysis)

determineEnhancedVerdict(humanScore, cryptoValid, isTampered, aiAnalysis) ==
  IF ~cryptoValid THEN "invalid"
  ELSE IF isTampered THEN "invalid"
  ELSE AdjustedVerdict(humanScore, aiAnalysis)

\* variant: the difference of the two scores, not floored at 0
ScoreDifference(biometricAnalysis, aiAnalysis) ==
  biometricAnalysis.humanScore - aiAnalysis.aiProbability

\* line 26: the AI likelihood is taken off the behavioral score
combinedHumanScore(biometricAnalysis, aiAnalysis) ==
  Max(0, biometricAnalysis.humanScore - aiAnalysis.aiProbability)

\* lines 13-45 of analyzeHumanSignFile: what it returns for a parsed archive
AnalysisOf(text, metadata, manifest) ==
  LET cryptoValid == verifyCryptographicIntegrity(metadata, manifest)
      isTampered == detectTampering(metadata, manifest, text)
      biometricAnalysis == analyzeBiometrics(metadata)
      aiAnalysis == analyzeForAI(metadata)
      combined == combinedHumanScore(biometricAnalysis, aiAnalysis)
      verdict == determineEnhancedVerdict(combined, cryptoValid, isTampered, aiAnalysis)
  IN  [status |-> "ok",
       isValid |-> cryptoValid /\ ~isTampered,
       isTampered |-> isTampered,
       humanScore |-> combined,
       verdict |-> verdict,
       anomalies |-> biometricAnalysis.anomalies \o aiAnalysis.redFlags,
       content |-> text,
       biometricAnalysis |-> biometricAnalysis,
       aiAnalysis |-> aiAnalysis]

----------------------------------------------------------------------------
(* Capture sessions handed to the packager *)

\* one recorded input action and the time since the previous one
Descs ==
  { [type |-> "keydown", key |-> "a", gap |-> 50, pasteLength |-> 0],
    [type |-> "keydown", key |-> "<", gap |-> 1500, pasteLength |-> 0],
    [type |-> "keydown", key |-> "Backspace", gap |-> 50, pasteLength |-> 0],
    [type |-> "paste", key |-> "", gap |-> 31000, pasteLength |-> 3] }

Scripts == UNION { [1..n -> Descs] : n \in 0..MaxRuns }

StartClock == 3 * MaxAge

SessionAge == 200 * 1000

\* performance.now() at the moment the session starts
PageLoadLead == 1000

GapsUpTo(script, i) == SumSeq([j \in 1..i |-> script[j].gap])

\* createEvent: both clocks sampled when the action is handled
EventsOf(script, sessionStart) ==
  [i \in 1..Len(script) |->
     Event(i, PageLoadLead + GapsUpTo(script, i), sessionStart + GapsUpTo(script, i),
           script[i].type, sessionStart, script[i].key, script[i].pasteLength)]

\* what the text area holds after the recorded actions
RECURSIVE TextAfter(_)
TextAfter(events) ==
  IF events = << >> THEN << >>
  ELSE LET before == TextAfter(SubSeq(events, 1, Len(events) - 1))
           e == events[Len(events)]
       IN  IF IsSingleCharKeyDown(e) THEN Append(before, e.key)
           ELSE IF IsBackspaceDown(e) /\ Len(before) > 0
                THEN SubSeq(before, 1, Len(before) - 1)
           ELSE IF IsPaste(e) THEN before \o [j \in 1..e.pasteLength |-> "p"]
           ELSE before

\* getBiometricMetadata (useBiometricCapture.ts)
getBiometricMetadata(events, sessionStart, text) ==
  [version |-> "1.0.0",
   events |-> events,
   sessionStart |-> sessionStart,
   sessionId |-> sessionStart,
   contentHash |-> Null,
   signature |-> Null,
   finalText |-> text]

\* scenario B: a single paste of ScenarioPasteLength characters
ScenarioPasteLength == 500

PasteOnly ==
  << [type |-> "paste", key |-> "", gap |-> 50, pasteLength |-> ScenarioPasteLength] >>

Sessions ==
  { LET events == EventsOf(sc, StartClock - SessionAge)
        text == TextAfter(events)
    IN  [text |-> text,
         metadata |-> getBiometricMetadata(events, StartClock - SessionAge, text)]
    : sc \in Scripts \cup {PasteOnly} }

----------------------------------------------------------------------------
(* The capture hook and the page as they are when mounted *)

\* useState / useRef initial values of useBiometricCapture (lines 8-29);
\* nextId numbers the events (crypto.randomUUID never repeats) and startId
\* is the number the first event of the current session gets
MountedHook(t) ==
  [text |-> << >>,
   events |-> << >>,
   isCapturing |-> FALSE,
   stats |-> [totalKeys |-> 0, backspaceCount |-> 0, pasteCount |-> 0, avgSpeed |-> 0,
              currentSpeed |-> 0, variance |-> << >>, thinkingPauses |-> 0,
              sessionDuration |-> 0, lastKeyTiming |-> 0, typingRhythm |-> << >>,
              humanConfidence |-> 0],
   sessionStart |-> t,
   lastKeyTime |-> 0,
   keyTimings |-> << >>,
   backspaceCount |-> 0,
   pasteCount |-> 0,
   nextId |-> 1,
   startId |-> 1]

\* useState initial values of NotaryPage (lines 25-27); creating is the
\* number of downloadHumanSignFile calls not yet settled, timers holds the
\* deadlines of the pending setTimeout callbacks, earliest first, downloads counts
\* the calls; pressed is the key held down in the text area ("" when none) and
\* typed tells whether its input event has been delivered
MountedPage ==
  [hasStarted |-> FALSE,
   isDownloading |-> FALSE,
   downloadStatus |-> "idle",
   creating |-> 0,
   timers |-> << >>,
   downloads |-> 0,
   pressed |-> "",
   typed |-> FALSE]

----------------------------------------------------------------------------
(* The state machine *)

NoFile ==
  [exists |-> FALSE, size |-> 0, isZip |-> FALSE, hasMetadata |-> FALSE, edited |-> FALSE,
   content |-> << >>, metadata |-> getBiometricMetadata(<< >>, 0, << >>),
   manifest |-> [contentHash |-> Null, signature |-> Null]]

NoResult == [status |-> "none"]

Failed == [status |-> "error"]

IdleCall ==
  [pc |-> "idle", n |-> 0, steps |-> << >>, readAt |-> 0, cryptoValid |-> FALSE,
   text |-> << >>, metadata |-> NoFile.metadata, manifest |-> NoFile.manifest]

Init ==
  /\ now = StartClock
  /\ ticks = 0
  /\ session \in Sessions
  /\ pkg = [pc |-> "idle", secretKey |-> "", contentHash |-> Null, signature |-> Null]
  /\ file = NoFile
  /\ call = IdleCall
  /\ result = NoResult
  /\ prev = NoResult
  /\ hook = MountedHook(StartClock)
  /\ page = MountedPage

TickSteps == {1, MaxAge}

\* time passes
Tick ==
  /\ ticks < MaxTicks
  /\ \E d \in TickSteps : now' = now + d
  /\ ticks' = ticks + 1
  /\ UNCHANGED <<session, pkg, file, call, result, prev, hook, page>>

----------------------------------------------------------------------------
(* FileHandler.createHumanSignFile, one action per resumption *)

IsSpace(c) == c = " "

\* text.split(/\s+/).filter(word => word.length > 0).length
WordCount(text) ==
  Cardinality({i \in 1..Len(text) : ~IsSpace(text[i]) /\ (i = 1 \/ IsSpace(text[i - 1]))})

\* variant: the manifest takes its signature slot from the hash
ManifestHashAsSignature(text, metadata, contentHash, signature) ==
  LET analysis == analyzeBiometrics(metadata)
  IN  [version |-> "1.0.0",
       format |-> "HUMANSIGN_V1",
       created |-> now,
       sessionId |-> metadata.sessionId,
       contentHash |-> contentHash,
       signature |-> contentHash,
       analysis |-> [humanScore |-> analysis.humanScore, verdict |-> analysis.verdict,
                     anomalies |-> analysis.anomalies, metrics |-> analysis.metrics,
                     analysisTimestamp |-> now],
       fileInfo |-> [textLength |-> Len(text), wordCount |-> WordCount(text),
                     eventCount |-> Len(metadata.events),
                     sessionDuration |-> analysis.metrics.sessionDuration]]

\* the manifest built at lines 169-183
ManifestOf(text, metadata, contentHash, signature) ==
  LET analysis == analyzeBiometrics(metadata)
  IN  [version |-> "1.0.0",
       format |-> "HUMANSIGN_V1",
       created |-> now,
       sessionId |-> metadata.sessionId,
       contentHash |-> contentHash,
       signature |-> signature,
       analysis |-> [humanScore |-> analysis.humanScore, verdict |-> analysis.verdict,
                     anomalies |-> analysis.anomalies, metrics |-> analysis.metrics,
                     analysisTimestamp |-> now],
       fileInfo |-> [textLength |-> Len(text), wordCount |-> WordCount(text),
                     eventCount |-> Len(metadata.events),
                     sessionDuration |-> analysis.metrics.sessionDuration]]

\* the call generates the key and requests the digest of the text; when it
\* arrives it is written into the metadata and the signature string is built
\* with the current time
CreateHashed ==
  /\ pkg.pc = "idle"
  /\ LET contentHash == createHash(session.text)
         metadata == [session.metadata EXCEPT !.contentHash = contentHash]
     IN  /\ session' = [session EXCEPT !.metadata = metadata]
         /\ pkg' = [pkg EXCEPT !.pc = "signing",
                               !.secretKey = generateSecretKey,
                               !.contentHash = contentHash,
                               !.signature = createSignature(metadata, generateSecretKey)]
  /\ UNCHANGED <<now, ticks, file, call, result, prev, hook, page>>

\* the signature arrives: metadata, analysis, manifest and members are fixed
CreateSigned ==
  /\ pkg.pc = "signing"
  /\ session' = [session EXCEPT !.metadata.signature = pkg.signature]
  /\ pkg' = [pkg EXCEPT !.pc = "zipping"]
  /\ file' = [NoFile EXCEPT
                !.content = session.text,
                !.metadata = session'.metadata,
                !.manifest = ManifestOf(session.text, session'.metadata,
                                        pkg.contentHash, pkg.signature)]
  /\ UNCHANGED <<now, ticks, call, result, prev, hook, page>>

\* zip.generateAsync resolves: the archive exists
CreateZipped ==
  /\ pkg.pc = "zipping"
  /\ pkg' = [pkg EXCEPT !.pc = "done"]
  /\ file' = [file EXCEPT !.exists = TRUE, !.isZip = TRUE, !.hasMetadata = TRUE,
                          !.size = 512 + Len(file.content) + Len(file.metadata.events)]
  /\ UNCHANGED <<now, ticks, session, call, result, prev, hook, page>>

----------------------------------------------------------------------------
(* Edits made to the archive between packaging and verification.  The      *)
(* archive is untrusted input of the verifier; one edit is applied to it   *)
(* at most, and none once a verification has been run on it.               *)

CanEdit == file.exists /\ ~file.edited /\ call.n = 0 /\ call.pc = "idle"

Edited(f) == [f EXCEPT !.edited = TRUE]

\* one event's timestamp is moved below its predecessor's
EditShiftEarlier ==
  /\ CanEdit
  /\ \E i \in 2..Len(file.metadata.events) :
        file' = Edited([file EXCEPT !.metadata.events[i].timestamp =
                                       file.metadata.events[i - 1].timestamp - 1])
  /\ UNCHANGED <<now, ticks, session, pkg, call, result, prev, hook, page>>

\* the last event's wall-clock time is set into the future
EditFutureEvent ==
  /\ CanEdit
  /\ Len(file.metadata.events) > 0
  /\ \E d \in {FutureSkew, FutureSkew + 1} :
        file' = Edited([file EXCEPT
                   !.metadata.events[Len(file.metadata.events)].absoluteTime = now + d])
  /\ UNCHANGED <<now, ticks, session, pkg, call, result, prev, hook, page>>

\* one property of the last event is removed
EditMalformEvent ==
  /\ CanEdit
  /\ Len(file.metadata.events) > 0
  /\ \E f \in EventFields :
        file' = Edited([file EXCEPT
                   !.metadata.events[Len(file.metadata.events)].missing = {f}])
  /\ UNCHANGED <<now, ticks, session, pkg, call, result, prev, hook, page>>

\* the file is padded to the size ceiling or one byte beyond it
EditPad ==
  /\ CanEdit
  /\ \E sz \in {MaxFileSize, MaxFileSize + 1} : file' = Edited([file EXCEPT !.size = sz])
  /\ UNCHANGED <<now, ticks, session, pkg, call, result, prev, hook, page>>

\* the container is damaged, or metadata.json is removed from it
EditContainer ==
  /\ CanEdit
  /\ \/ file' = Edited([file EXCEPT !.isZip = FALSE])
     \/ file' = Edited([file EXCEPT !.hasMetadata = FALSE])
  /\ UNCHANGED <<now, ticks, session, pkg, call, result, prev, hook, page>>

\* the session start is moved 48 hours into the past
EditBackdate ==
  /\ CanEdit
  /\ file' = Edited([file EXCEPT !.metadata.sessionStart = now - 2 * MaxAge])
  /\ UNCHANGED <<now, ticks, session, pkg, call, result, prev, hook, page>>

\* the manifest loses its hash or its signature, or carries the hash of
\* another text
EditManifest ==
  /\ CanEdit
  /\ \/ file' = Edited([file EXCEPT !.manifest.contentHash = Null])
     \/ file' = Edited([file EXCEPT !.manifest.signature = Null])
     \/ file' = Edited([file EXCEPT !.manifest.contentHash =
                                       createHash(Append(file.content, "x"))])
  /\ UNCHANGED <<now, ticks, session, pkg, call, result, prev, hook, page>>

\* the analysis a forger would like the manifest to state
FlatteringAnalysis(analysis) ==
  [analysis EXCEPT !.humanScore = 100, !.verdict = "VERIFIED_HUMAN", !.anomalies = << >>]

\* the manifest's analysis block, its fileInfo or its creation time is
\* rewritten; hash and signature are left as they are
EditAnalysis ==
  /\ CanEdit
  /\ \/ file' = Edited([file EXCEPT !.manifest.analysis = FlatteringAnalysis(@)])
     \/ file' = Edited([file EXCEPT !.manifest.fileInfo.eventCount = @ + 1])
     \/ file' = Edited([file EXCEPT !.manifest.created = @ - 1])
  /\ UNCHANGED <<now, ticks, session, pkg, call, result, prev, hook, page>>

\* the manifest signature is replaced by one made with the demo key for
\* a chosen signing time
EditForge ==
  /\ CanEdit
  /\ \E t \in {now, now + 1} :
        file' = Edited([file EXCEPT !.manifest.signature =
                   createHash([SignatureString(file.metadata, DemoKey)
                                 EXCEPT !.timestamp = t])])
  /\ UNCHANGED <<now, ticks, session, pkg, call, result, prev, hook, page>>

----------------------------------------------------------------------------
(* AnalysisEngine.analyzeHumanSignFile over FileHandler.readHumanSignFile, *)
(* one action per resumption.  call.steps lists what the call has run and   *)
(* call.readAt is Date.now() at the reader's latest resumption.             *)

\* the call: zip.loadAsync(file) settles; then the size check; then the
\* member reads are issued
ReadLoaded ==
  /\ file.exists
  /\ call.pc = "idle"
  /\ call.n < MaxCalls
  /\ prev' = result
  /\ IF ~file.isZip
     THEN /\ call' = [IdleCall EXCEPT !.n = call.n + 1, !.readAt = now,
                                      !.steps = <<"loadAsync">>]
          /\ result' = Failed
     ELSE IF file.size > MaxFileSize
     THEN /\ call' = [IdleCall EXCEPT !.n = call.n + 1, !.readAt = now,
                                      !.steps = <<"loadAsync", "sizeCheck">>]
          /\ result' = Failed
     ELSE /\ call' = [IdleCall EXCEPT !.n = call.n + 1, !.pc = "reading", !.readAt = now,
                                      !.steps = <<"loadAsync", "sizeCheck">>]
          /\ result' = NoResult
  /\ UNCHANGED <<now, ticks, session, pkg, file, hook, page>>

\* lines 272-287 of readHumanSignFile: TRUE when one of the screens throws
ReadRejects ==
  \/ ~file.hasMetadata
  \/ ~validateEventStructure(file.metadata.events)
  \/ detectTimestampManipulation(file.metadata.events)
  \/ isReplayAttack(file.metadata)

\* the members arrive: parsing, the three screens, sanitizing; on success
\* the digest of the final text is requested
ReadParsed ==
  /\ call.pc = "reading"
  /\ IF ReadRejects
     THEN /\ call' = [call EXCEPT !.pc = "idle", !.readAt = now,
                         !.steps = @ \o <<"content.txt", "metadata.json", "manifest.json">>]
          /\ result' = Failed
     ELSE /\ call' = [call EXCEPT !.pc = "verifying", !.readAt = now,
                         !.steps = @ \o <<"content.txt", "metadata.json", "manifest.json">>,
                         !.text = sanitizeContent(file.content),
                         !.metadata = file.metadata,
                         !.manifest = file.manifest]
          /\ result' = NoResult
  /\ UNCHANGED <<now, ticks, session, pkg, file, prev, hook, page>>

\* the digest arrives: signature check, tamper check, both scorers, verdict
Analyzed ==
  /\ call.pc = "verifying"
  /\ call' = [call EXCEPT !.pc = "idle",
                 !.steps = @ \o <<"crypto", "tamper", "biometric", "ai">>,
                 !.cryptoValid = verifyCryptographicIntegrity(call.metadata, call.manifest)]
  /\ result' = AnalysisOf(call.text, call.metadata, call.manifest)
  /\ UNCHANGED <<now, ticks, session, pkg, file, prev, hook, page>>

----------------------------------------------------------------------------

Next ==
  \/ Tick
  \/ CreateHashed \/ CreateSigned \/ CreateZipped
  \/ EditShiftEarlier \/ EditFutureEvent \/ EditMalformEvent \/ EditPad
  \/ EditContainer \/ EditBackdate \/ EditManifest \/ EditForge \/ EditAnalysis
  \/ ReadLoaded \/ ReadParsed \/ Analyzed

Spec == Init /\ [][Next]_vars

----------------------------------------------------------------------------
(* The two scorers applied to an event log and to the same log with paste  *)
(* events inserted (the final text is left as it is)                       *)

Burst(n) == [i \in 1..n |-> [type |-> "keydown", key |-> "a", gap |-> 50, pasteLength |-> 0]]

ScoreSessions ==
  { LET events == EventsOf(Burst(n) \o sc, StartClock - SessionAge)
        text == TextAfter(events)
    IN  [text |-> text,
         metadata |-> getBiometricMetadata(events, StartClock - SessionAge, text)]
    : n \in {0, BurstLen}, sc \in Scripts }

Scores(metadata) ==
  [status |-> "scored",
   inserted |-> 0,
   behavioral |-> analyzeBiometrics(metadata).humanScore,
   aiProbability |-> analyzeForAI(metadata).aiProbability]

InsertGaps == {0, 1500}

PasteLengths == {0, 3}

\* a paste event placed after the k-th event, g after it (or g before the
\* first event when k = 0), never beyond the event that follows
PasteAt(events, k, g, n) ==
  LET sid == StartClock - SessionAge
      ts  == IF Len(events) = 0 THEN PageLoadLead
             ELSE IF k = 0 THEN events[1].timestamp - g
             ELSE IF k = Len(events) THEN events[k].timestamp + g
             ELSE Min(events[k].timestamp + g, events[k + 1].timestamp)
      abs == IF Len(events) = 0 THEN sid
             ELSE IF k = 0 THEN events[1].absoluteTime - g
             ELSE IF k = Len(events) THEN events[k].absoluteTime + g
             ELSE Min(events[k].absoluteTime + g, events[k + 1].absoluteTime)
  IN  Event(Len(events) + 1, ts, abs, "paste", sid, "", n)

InsertAt(events, k, e) == SubSeq(events, 1, k) \o <<e>> \o SubSeq(events, k + 1, Len(events))

ScoreInit ==
  /\ now = StartClock
  /\ ticks = 0
  /\ session \in ScoreSessions
  /\ pkg = [pc |-> "idle", secretKey |-> "", contentHash |-> Null, signature |-> Null]
  /\ file = NoFile
  /\ call = IdleCall
  /\ result = NoResult
  /\ prev = NoResult
  /\ hook = MountedHook(StartClock)
  /\ page = MountedPage

\* both scorers run on the log
ScoreLog ==
  /\ result.status = "none"
  /\ result' = Scores(session.metadata)
  /\ UNCHANGED <<now, ticks, session, pkg, file, call, prev, hook, page>>

\* one paste event is inserted and both scorers run again
ScoreWithPaste ==
  /\ result.status = "scored"
  /\ result.inserted < MaxInserts
  /\ \E k \in 0..Len(session.metadata.events), g \in InsertGaps, n \in PasteLengths :
        LET events == session.metadata.events
            metadata == [session.metadata EXCEPT
                           !.events = InsertAt(events, k, PasteAt(events, k, g, n))]
        IN  /\ session' = [session EXCEPT !.metadata = metadata]
            /\ result' = [Scores(metadata) EXCEPT !.inserted = result.inserted + 1]
  /\ prev' = result
  /\ UNCHANGED <<now, ticks, pkg, file, call, hook, page>>

ScoreNext == ScoreLog \/ ScoreWithPaste

SpecScore == ScoreInit /\ [][ScoreNext]_vars

----------------------------------------------------------------------------
(* useBiometricCapture: the capture session of one editor.  React commits   *)
(* the state updates of a handler and runs the effects of that render      *)
(* before the next input event is delivered, so a step is the handler, the *)
(* commit and the stats effect.                                            *)

RingCap == 100

RhythmShown == 20

PastePenaltyLive == 15

\* performance.now(): milliseconds since the page was loaded
performanceNow == now - StartClock + PageLoadLead

\* variant: slice(0, n), the first n elements
FirstN(s, n) == IF Len(s) > n THEN SubSeq(s, 1, n) ELSE s

\* slice(-n): the last n elements
LastN(s, n) == IF Len(s) > n THEN SubSeq(s, Len(s) - n + 1, Len(s)) ELSE s

createEvent(h, type, key, pasteLength) ==
  Event(h.nextId, performanceNow, now, type, h.sessionStart, key, pasteLength)

\* Math.round((Math.std(timings) / Math.mean(timings)) * 100) <= k, for the
\* intervals the variance is kept as (<< >> stands for 0)
VarianceAtMost(variance, k) ==
  IF variance = << >> THEN 0 <= k ELSE CoefficientBelow(variance, 2 * k + 1, 200)

\* the ratio is taken over the intervals of the ring, not over the key-downs
calculateHumanConfidence(backspaces, pastes, variance, pauses, totalKeys) ==
  LET ratioZero == totalKeys = 0 \/ backspaces = 0
      ratioMid  == totalKeys > 0 /\ 20 * backspaces > totalKeys /\ 5 * backspaces < totalKeys
      score == 100 - (IF pastes > 0 THEN pastes * PastePenaltyLive ELSE 0)
                   + (IF ratioMid THEN 10 ELSE IF ratioZero THEN 0 - 20 ELSE 0)
                   + (IF ~VarianceAtMost(variance, 20) /\ VarianceAtMost(variance, 79) THEN 15
                      ELSE IF VarianceAtMost(variance, 5) THEN 0 - 25 ELSE 0)
                   + (IF pauses > 2 THEN 10 ELSE 0)
  IN  Max(0, Min(100, score))

RingTimings(h) ==
  SelectSeq([i \in 1..Len(h.keyTimings) |-> h.keyTimings[i].timing], InRange)

calculateStats(h) ==
  LET elapsed == now - h.sessionStart
      words == WordCount(h.text)
      currentSpeed == IF elapsed > 0
                      THEN (2 * 60000 * words + elapsed) \div (2 * elapsed) ELSE 0
      timings == RingTimings(h)
      variance == IF Len(timings) > 1 THEN timings ELSE << >>
      thinkingPauses == Count(timings, IsThinkingPause)
  IN  [totalKeys |-> Count(h.events, IsKeyDown),
       backspaceCount |-> h.backspaceCount,
       pasteCount |-> h.pasteCount,
       avgSpeed |-> currentSpeed,
       currentSpeed |-> currentSpeed,
       variance |-> variance,
       thinkingPauses |-> thinkingPauses,
       sessionDuration |-> (elapsed + 500) \div 1000,
       lastKeyTiming |-> IF Len(timings) > 0 THEN timings[Len(timings)] ELSE 0,
       typingRhythm |-> LastN(timings, RhythmShown),
       humanConfidence |-> calculateHumanConfidence(h.backspaceCount, h.pasteCount,
                                                    variance, thinkingPauses, Len(timings))]

\* variant: the effect does not list events among its dependencies
StatsEffectWithoutEvents(old, new, eventsSet) ==
  new.isCapturing /\ (old.text # new.text \/ old.isCapturing # new.isCapturing)

\* lines 254-258: the effect runs after a render in which events (a new
\* array on every setEvents), text or isCapturing changed
StatsEffectDue(old, new, eventsSet) ==
  new.isCapturing /\ (eventsSet \/ old.text # new.text \/ old.isCapturing # new.isCapturing)

Rendered(old, new, eventsSet) ==
  IF StatsEffectDue(old, new, eventsSet)
  THEN [new EXCEPT !.stats = calculateStats(new)] ELSE new

RingKey(key) == Len(key) = 1 \/ key = "Backspace" \/ key = "Enter"

\* variant: the handler records whether or not the session is capturing
KeyDownUnguarded(h, key) ==
  LET t == performanceNow
      timing == IF h.lastKeyTime > 0 THEN t - h.lastKeyTime ELSE 0
  IN  [h EXCEPT !.lastKeyTime = t,
                !.keyTimings = IF RingKey(key)
                               THEN LastN(Append(@, [key |-> key, timestamp |-> t,
                                                     timing |-> timing]), RingCap)
                               ELSE @,
                !.backspaceCount = IF key = "Backspace" THEN @ + 1 ELSE @,
                !.events = Append(@, createEvent(h, "keydown", key, 0)),
                !.nextId = @ + 1]

handleKeyDown(h, key) ==
  IF ~h.isCapturing THEN h
  ELSE LET t == performanceNow
           timing == IF h.lastKeyTime > 0 THEN t - h.lastKeyTime ELSE 0
       IN  [h EXCEPT !.lastKeyTime = t,
                     !.keyTimings = IF RingKey(key)
                                    THEN LastN(Append(@, [key |-> key, timestamp |-> t,
                                                          timing |-> timing]), RingCap)
                                    ELSE @,
                     !.backspaceCount = IF key = "Backspace" THEN @ + 1 ELSE @,
                     !.events = Append(@, createEvent(h, "keydown", key, 0)),
                     !.nextId = @ + 1]

\* handleKeyUp, handleCopy and handleCut: the event is appended, nothing else
RecordOnly(h, type, key) ==
  IF ~h.isCapturing THEN h
  ELSE [h EXCEPT !.events = Append(@, createEvent(h, type, key, 0)), !.nextId = @ + 1]

handleKeyUp(h, key) == RecordOnly(h, "keyup", key)

\* variant: the paste event is appended, the counter is left as it is
PasteUncounted(h, pasteLength) ==
  IF ~h.isCapturing THEN h
  ELSE [h EXCEPT !.events = Append(@, createEvent(h, "paste", "", pasteLength)),
                 !.nextId = @ + 1]

handlePaste(h, pasteLength) ==
  IF ~h.isCapturing THEN h
  ELSE [h EXCEPT !.pasteCount = @ + 1,
                 !.events = Append(@, createEvent(h, "paste", "", pasteLength)),
                 !.nextId = @ + 1]

handleCopy(h) == RecordOnly(h, "copy", "")

handleCut(h) == RecordOnly(h, "cut", "")

\* variant: the event sequence survives the start
StartKeepingEvents(h) ==
  [h EXCEPT !.isCapturing = TRUE, !.sessionStart = now, !.lastKeyTime = 0,
            !.keyTimings = << >>, !.backspaceCount = 0, !.pasteCount = 0,
            !.startId = h.nextId]

startCapture(h) ==
  [h EXCEPT !.isCapturing = TRUE, !.sessionStart = now, !.lastKeyTime = 0,
            !.keyTimings = << >>, !.backspaceCount = 0, !.pasteCount = 0,
            !.events = << >>, !.startId = h.nextId]

stopCapture(h) == [h EXCEPT !.isCapturing = FALSE]

setText(h, value) == [h EXCEPT !.text = value]

\* one delivered call of each export, with the render that follows it
KeyDownStep(h, key) == Rendered(h, handleKeyDown(h, key), h.isCapturing)

KeyUpStep(h, key) == Rendered(h, handleKeyUp(h, key), h.isCapturing)

PasteStep(h, pasteLength) == Rendered(h, handlePaste(h, pasteLength), h.isCapturing)

CopyStep(h) == Rendered(h, handleCopy(h), h.isCapturing)

CutStep(h) == Rendered(h, handleCut(h), h.isCapturing)

StartStep(h) == Rendered(h, startCapture(h), TRUE)

StopStep(h) == Rendered(h, stopCapture(h), FALSE)

----------------------------------------------------------------------------
(* The capture session driven by input events, and NotaryPage's download   *)

HookKeys == {"a", "Backspace", "Shift"}

HookPasteLengths == {3}

Texts == { <<"a">> }

ElapseSteps == {50, 1500}

StatusDelay == 3000

CaptureInit ==
  /\ now = StartClock
  /\ ticks = 0
  /\ session = [text |-> << >>, metadata |-> getBiometricMetadata(<< >>, StartClock, << >>)]
  /\ pkg = [pc |-> "idle", secretKey |-> "", contentHash |-> Null, signature |-> Null]
  /\ file = NoFile
  /\ call = IdleCall
  /\ result = NoResult
  /\ prev = NoResult
  /\ hook = MountedHook(StartClock)
  /\ page = MountedPage

Elapse ==
  /\ ticks < MaxTicks
  /\ \E d \in ElapseSteps : now' = now + d
  /\ ticks' = ticks + 1
  /\ UNCHANGED <<session, pkg, file, call, result, prev, hook, page>>

CanRecord == hook.nextId <= MaxEvents

KeyDown ==
  /\ CanRecord
  /\ \E key \in HookKeys : hook' = KeyDownStep(hook, key)
  /\ UNCHANGED <<now, ticks, session, pkg, file, call, result, prev, page>>

KeyUp ==
  /\ CanRecord
  /\ hook' = KeyUpStep(hook, "a")
  /\ UNCHANGED <<now, ticks, session, pkg, file, call, result, prev, page>>

Paste ==
  /\ CanRecord
  /\ \E n \in HookPasteLengths : hook' = PasteStep(hook, n)
  /\ UNCHANGED <<now, ticks, session, pkg, file, call, result, prev, page>>

Copy ==
  /\ CanRecord
  /\ hook' = CopyStep(hook)
  /\ UNCHANGED <<now, ticks, session, pkg, file, call, result, prev, page>>

Cut ==
  /\ CanRecord
  /\ hook' = CutStep(hook)
  /\ UNCHANGED <<now, ticks, session, pkg, file, call, result, prev, page>>

StartCapture ==
  /\ hook' = StartStep(hook)
  /\ UNCHANGED <<now, ticks, session, pkg, file, call, result, prev, page>>

StopCapture ==
  /\ hook' = StopStep(hook)
  /\ UNCHANGED <<now, ticks, session, pkg, file, call, result, prev, page>>

\* handleTextChange, the render, and NotaryPage's effect (lines 30-35) that
\* starts the capture when the text is first non-empty
TextChange ==
  /\ \E value \in Texts :
        LET typed == Rendered(hook, setText(hook, value), FALSE)
        IN  IF ~page.hasStarted /\ Len(value) > 0
            THEN /\ hook' = StartStep(typed)
                 /\ page' = [page EXCEPT !.hasStarted = TRUE]
            ELSE /\ hook' = typed
                 /\ page' = page
  /\ UNCHANGED <<now, ticks, session, pkg, file, call, result, prev>>

CaptureNext ==
  \/ Elapse
  \/ KeyDown \/ KeyUp \/ Paste \/ Copy \/ Cut
  \/ StartCapture \/ StopCapture \/ TextChange

SpecCapture == CaptureInit /\ [][CaptureNext]_vars

\* the button is disabled while text is empty or isDownloading (line 162);
\* handleDownload up to its await
DownloadClicked ==
  /\ Len(hook.text) > 0
  /\ ~page.isDownloading
  /\ page.downloads < MaxDownloads
  /\ page' = [page EXCEPT !.isDownloading = TRUE, !.downloadStatus = "processing",
                          !.creating = @ + 1, !.downloads = @ + 1]
  /\ UNCHANGED <<now, ticks, session, pkg, file, call, result, prev, hook>>

\* downloadHumanSignFile settles: handleDownload resumes after the await
DownloadSettled ==
  /\ page.creating > 0
  /\ \E outcome \in {"success", "error"} :
        page' = [page EXCEPT !.downloadStatus = outcome,
                             !.timers = Append(@, now + StatusDelay),
                             !.isDownloading = FALSE,
                             !.creating = @ - 1]
  /\ UNCHANGED <<now, ticks, session, pkg, file, call, result, prev, hook>>

\* the callback of the earliest setTimeout runs once its delay has passed
StatusTimerFired ==
  /\ page.timers # << >>
  /\ now >= Head(page.timers)
  /\ page' = [page EXCEPT !.downloadStatus = "idle", !.timers = Tail(@)]
  /\ UNCHANGED <<now, ticks, session, pkg, file, call, result, prev, hook>>

PageNext ==
  \/ Elapse
  \/ TextChange
  \/ DownloadClicked \/ DownloadSettled \/ StatusTimerFired

SpecPage == CaptureInit /\ [][PageNext]_vars

----------------------------------------------------------------------------
(* The behavioral scorer applied to the evenly spaced log of scenario A    *)

ScenarioKeys == 200

ScenarioGap == 150

ScenarioBackspaces == 8

\* createEvent for key-downs ScenarioGap apart; the Backspaces are the keys
\* first..first+7, taken among the ScenarioKeys key-downs or pressed in
\* addition to them
EvenEvents(total, first) ==
  [i \in 1..total |->
     Event(i, PageLoadLead + i * ScenarioGap, StartClock - SessionAge + i * ScenarioGap,
           "keydown", StartClock - SessionAge,
           IF i >= first /\ i < first + ScenarioBackspaces THEN "Backspace" ELSE "a", 0)]

EvenSessions ==
  { LET events == EvenEvents(total, first)
        text == [j \in 1..(total - ScenarioBackspaces - Min(first - 1, ScenarioBackspaces))
                   |-> "a"]
    IN  [text |-> text,
         metadata |-> getBiometricMetadata(events, StartClock - SessionAge, text)]
    : total \in {ScenarioKeys, ScenarioKeys + ScenarioBackspaces},
      first \in 1..(ScenarioKeys - ScenarioBackspaces + 1) }

EvenInit ==
  /\ now = StartClock
  /\ ticks = 0
  /\ session \in EvenSessions
  /\ pkg = [pc |-> "idle", secretKey |-> "", contentHash |-> Null, signature |-> Null]
  /\ file = NoFile
  /\ call = IdleCall
  /\ result = NoResult
  /\ prev = NoResult
  /\ hook = MountedHook(StartClock)
  /\ page = MountedPage

\* analyzeBiometrics runs on the log
EvenScored ==
  /\ result.status = "none"
  /\ result' = [status |-> "scored", biometricAnalysis |-> analyzeBiometrics(session.metadata)]
  /\ UNCHANGED <<now, ticks, session, pkg, file, call, prev, hook, page>>

SpecEven == EvenInit /\ [][EvenScored]_vars

----------------------------------------------------------------------------
(* The final verdict as a function of the two scores and the two flags     *)

ScoreRange == 0..100

VerdictInit ==
  /\ now = StartClock
  /\ ticks = 0
  /\ session \in [behavioral : ScoreRange, aiProbability : ScoreRange,
                  cryptoValid : BOOLEAN, isTampered : BOOLEAN]
  /\ pkg = [pc |-> "idle", secretKey |-> "", contentHash |-> Null, signature |-> Null]
  /\ file = NoFile
  /\ call = IdleCall
  /\ result = NoResult
  /\ prev = NoResult
  /\ hook = MountedHook(StartClock)
  /\ page = MountedPage

\* lines 26-29 of analyzeHumanSignFile
VerdictDetermined ==
  /\ result.status = "none"
  /\ LET biometricAnalysis == [humanScore |-> session.behavioral]
         aiAnalysis == [aiProbability |-> session.aiProbability]
         combined == combinedHumanScore(biometricAnalysis, aiAnalysis)
     IN  result' = [status |-> "verdict",
                    isValid |-> session.cryptoValid /\ ~session.isTampered,
                    humanScore |-> combined,
                    verdict |-> determineEnhancedVerdict(combined, session.cryptoValid,
                                                         session.isTampered, aiAnalysis)]
  /\ UNCHANGED <<now, ticks, session, pkg, file, call, prev, hook, page>>

SpecVerdict == VerdictInit /\ [][VerdictDetermined]_vars

----------------------------------------------------------------------------
(* The two scorers and their combination on logs as the hook records them: *)
(* every key press is a key-down followed by its key-up                    *)

MaxTaps == 30

MaxPastes == 11

TapGaps == {40, 150}

TapPasteLength == 3

\* createEvent for n key presses gap apart (the last b of them Backspace),
\* each released half a gap later, then k pastes
TapEvents(n, gap, b, k) ==
  LET sid == StartClock - SessionAge
  IN  [i \in 1..(2 * n + k) |->
         IF i <= 2 * n
         THEN LET j == (i + 1) \div 2
                  t == j * gap + (IF i % 2 = 0 THEN gap \div 2 ELSE 0)
              IN  Event(i, PageLoadLead + t, sid + t,
                        IF i % 2 = 0 THEN "keyup" ELSE "keydown", sid,
                        IF j > n - b THEN "Backspace" ELSE "a", 0)
         ELSE LET t == n * gap + gap \div 2 + (i - 2 * n) * gap
              IN  Event(i, PageLoadLead + t, sid + t, "paste", sid, "", TapPasteLength)]

TapSessions ==
  { LET events == TapEvents(n, gap, b, k)
        text == [j \in 1..(Max(0, n - 2 * b) + k * TapPasteLength) |->
                   IF j <= Max(0, n - 2 * b) THEN "a" ELSE "p"]
    IN  [text |-> text,
         metadata |-> getBiometricMetadata(events, StartClock - SessionAge, text)]
    : n \in 0..MaxTaps, gap \in TapGaps, b \in {0, 1}, k \in {0, 1, MaxPastes} }

LogInit ==
  /\ now = StartClock
  /\ ticks = 0
  /\ session \in TapSessions
  /\ pkg = [pc |-> "idle", secretKey |-> "", contentHash |-> Null, signature |-> Null]
  /\ file = NoFile
  /\ call = IdleCall
  /\ result = NoResult
  /\ prev = NoResult
  /\ hook = MountedHook(StartClock)
  /\ page = MountedPage

\* lines 24-26 of analyzeHumanSignFile
LogAnalyzed ==
  /\ result.status = "none"
  /\ LET biometricAnalysis == analyzeBiometrics(session.metadata)
         aiAnalysis == analyzeForAI(session.metadata)
     IN  result' = [status |-> "analyzed",
                    biometricAnalysis |-> biometricAnalysis,
                    aiAnalysis |-> aiAnalysis,
                    humanScore |-> combinedHumanScore(biometricAnalysis, aiAnalysis)]
  /\ UNCHANGED <<now, ticks, session, pkg, file, call, prev, hook, page>>

SpecLogs == LogInit /\ [][LogAnalyzed]_vars

----------------------------------------------------------------------------
(* One capture session typed past the capacity of the rhythm ring          *)

RingOver == 3

RingGap == 120

\* the key of the i-th key-down of the run
KeyAt(i) ==
  IF i % 7 = 0 THEN "Enter" ELSE IF i % 5 = 0 THEN "Backspace" ELSE "a"

OtherKeys == {"Shift"}

IsOtherKeyDown(e) == e.type = "keydown" /\ e.key \in OtherKeys

\* startCapture is called on the mounted hook
RingStart ==
  /\ ~hook.isCapturing
  /\ hook' = StartStep(hook)
  /\ UNCHANGED <<now, ticks, session, pkg, file, call, result, prev, page>>

\* the time between two key-downs
RingElapse ==
  /\ hook.isCapturing
  /\ ticks = 0
  /\ now' = now + RingGap
  /\ ticks' = 1
  /\ UNCHANGED <<session, pkg, file, call, result, prev, hook, page>>

\* handleKeyDown for the next key of the run, or once for a modifier key
RingKeyDown ==
  /\ hook.isCapturing
  /\ ticks = 1
  /\ hook.nextId <= RingCap + RingOver
  /\ \E key \in {KeyAt(hook.nextId)} \cup
                 (IF Count(hook.events, IsOtherKeyDown) = 0 THEN OtherKeys ELSE {}) :
        hook' = KeyDownStep(hook, key)
  /\ ticks' = 0
  /\ UNCHANGED <<now, session, pkg, file, call, result, prev, page>>

RingNext == RingStart \/ RingElapse \/ RingKeyDown

SpecRing == CaptureInit /\ [][RingNext]_vars

----------------------------------------------------------------------------
(* A document typed into the text area of NotaryPage.  For a key that      *)
(* produces a character the browser delivers the key-down, then the input  *)
(* event that carries the new value, then the key-up.                      *)

MaxTyped == 2

TypedKeys == {"a", "b"}

\* onKeyDown of the text area
TypingKeyDown ==
  /\ page.pressed = ""
  /\ Len(hook.text) < MaxTyped
  /\ \E key \in TypedKeys :
        /\ hook' = KeyDownStep(hook, key)
        /\ page' = [page EXCEPT !.pressed = key, !.typed = FALSE]
  /\ UNCHANGED <<now, ticks, session, pkg, file, call, result, prev>>

\* onChange with the character appended: handleTextChange, the render, and
\* the auto-start effect (lines 30-35)
TypingInput ==
  /\ page.pressed # ""
  /\ ~page.typed
  /\ LET typed == Rendered(hook, setText(hook, Append(hook.text, page.pressed)), FALSE)
     IN  IF ~page.hasStarted
         THEN /\ hook' = StartStep(typed)
              /\ page' = [page EXCEPT !.hasStarted = TRUE, !.typed = TRUE]
         ELSE /\ hook' = typed
              /\ page' = [page EXCEPT !.typed = TRUE]
  /\ UNCHANGED <<now, ticks, session, pkg, file, call, result, prev>>

\* onKeyUp of the text area
TypingKeyUp ==
  /\ page.pressed # ""
  /\ page.typed
  /\ hook' = KeyUpStep(hook, page.pressed)
  /\ page' = [page EXCEPT !.pressed = "", !.typed = FALSE]
  /\ UNCHANGED <<now, ticks, session, pkg, file, call, result, prev>>

\* handleDownload up to its await: the metadata of the document is produced
TypingDownload ==
  /\ page.pressed = ""
  /\ Len(hook.text) > 0
  /\ ~page.isDownloading
  /\ page.downloads < MaxDownloads
  /\ session' = [text |-> hook.text,
                 metadata |-> getBiometricMetadata(hook.events, hook.sessionStart,
                                                   hook.text)]
  /\ page' = [page EXCEPT !.isDownloading = TRUE, !.downloadStatus = "processing",
                          !.creating = @ + 1, !.downloads = @ + 1]
  /\ UNCHANGED <<now, ticks, pkg, file, call, result, prev, hook>>

TypingNext ==
  \/ Elapse
  \/ TypingKeyDown \/ TypingInput \/ TypingKeyUp
  \/ TypingDownload \/ DownloadSettled

SpecTyping == CaptureInit /\ [][TypingNext]_vars

----------------------------------------------------------------------------
(* Properties *)

Range(s) == {s[i] : i \in 1..Len(s)}

\* an analyzeHumanSignFile call has ended
CallEnded == call.n > 0 /\ call.pc = "idle"

\* the archive is as createHumanSignFile wrote it
Unmodified == file.exists /\ ~file.edited

\* C1: an unmodified archive of a session started less than 24 hours ago
\* analyzes to isValid = true and isTampered = false
C1_RoundTrip ==
  (CallEnded /\ Unmodified /\ now - file.metadata.sessionStart < MaxAge)
    => (result.status = "ok" /\ result.isValid /\ ~result.isTampered)

\* C2: a signature made by createSignature verifies under the same metadata
\* and key at every later time
C2_SignatureReplay ==
  pkg.pc \in {"signing", "zipping", "done"}
    => verifySignature(session.metadata, pkg.signature, pkg.secretKey)

OutOfOrderPairs(events) ==
  {i \in 2..Len(events) : events[i].timestamp < events[i - 1].timestamp}

\* C3: an archive with exactly one out-of-order timestamp pair, inside the
\* replay window, analyzes to a result with isTampered = true and verdict invalid
C3_OutOfOrderTampered ==
  (/\ CallEnded
   /\ file.hasMetadata /\ file.isZip /\ file.size <= MaxFileSize
   /\ Cardinality(OutOfOrderPairs(file.metadata.events)) = 1
   /\ now - file.metadata.sessionStart <= MaxAge)
    => (result.status = "ok" /\ result.isTampered /\ result.verdict = "invalid")

\* C4: in every result the verdict is invalid exactly when isValid is false,
\* and isValid is cryptoValid and not isTampered
C4_VerdictInvalidIff ==
  (CallEnded /\ result.status = "ok")
    => /\ (result.verdict = "invalid") <=> ~result.isValid
       /\ result.isValid <=> (call.cryptoValid /\ ~result.isTampered)

C4_Witness ==
  CallEnded /\ result.status = "ok" /\ result.isValid /\ result.verdict # "invalid"

\* C5: a file above 10 MiB is rejected and nothing of it is parsed first
C5_SizeBeforeParse ==
  (CallEnded /\ file.size > MaxFileSize)
    => (result = Failed /\ "loadAsync" \notin Range(call.steps))

\* C6: a read whose verification time is more than 24 hours after
\* metadata.sessionStart never returns: the call fails
C6_ReplayWindow ==
  (/\ call.n > 0 /\ call.pc # "reading"
   /\ file.hasMetadata
   /\ call.readAt - file.metadata.sessionStart > MaxAge)
    => (call.pc = "idle" /\ result = Failed)

\* an archive accepted once and rejected once its age has passed 24 hours
C6_Witness ==
  /\ CallEnded /\ Unmodified
  /\ prev.status = "ok" /\ result = Failed
  /\ call.readAt - file.metadata.sessionStart > MaxAge

SameOutcome(r1, r2) ==
  /\ r1.status = r2.status
  /\ r1.status = "ok" => (r1.verdict = r2.verdict /\ r1.humanScore = r2.humanScore)

\* C7: two calls on the same archive, at any two times, end the same way
C7_Idempotent ==
  (CallEnded /\ call.n >= 2) => SameOutcome(prev, result)

ScoringSteps == {"crypto", "tamper", "biometric", "ai"}

\* the stored hash or signature is absent or the hash does not match
IntegrityBroken(metadata, manifest) ==
  \/ manifest.contentHash = Null
  \/ manifest.signature = Null
  \/ manifest.contentHash # createHash(metadata.finalText)

StructuralFault(t) ==
  \/ file.size > MaxFileSize
  \/ /\ file.hasMetadata
     /\ LET events == file.metadata.events
        IN  \/ \E i \in 1..Len(events) : events[i].missing # {}
            \/ OutOfOrderPairs(events) # {}
            \/ \E i \in 1..Len(events) : events[i].absoluteTime > t + FutureSkew
            \/ t - file.metadata.sessionStart > MaxAge

\* C10: a call on an archive with a structural fault fails, with no result
\* and without running the crypto check, the tamper check or either scorer
C10_StructuralAbort ==
  (CallEnded /\ StructuralFault(call.readAt))
    => (result = Failed /\ Range(call.steps) \cap ScoringSteps = {})

\* C8: a log with one more paste event never scores higher on the behavioral
\* scorer nor lower on the AI-likelihood scorer than the log without it
C8_MonotonePaste ==
  (prev.status = "scored" /\ result.status = "scored")
    => /\ result.behavioral <= prev.behavioral
       /\ result.aiProbability >= prev.aiProbability


\* the fields of the capture session that hold recorded data
Recorded(h) == <<h.events, h.keyTimings, h.backspaceCount, h.pasteCount>>

\* C11: startCapture, from any state of the hook, leaves the event sequence
\* and the rhythm ring empty, both counters 0, the session start at the
\* current time and the session capturing; and the events a session holds
\* were all recorded after its start
C11_StartResets ==
  LET h == StartStep(hook)
  IN  /\ h.events = << >>
      /\ h.keyTimings = << >>
      /\ h.backspaceCount = 0
      /\ h.pasteCount = 0
      /\ h.sessionStart = now
      /\ h.isCapturing
      /\ \A i \in 1..Len(hook.events) :
            hook.events[i].id >= hook.startId /\ hook.events[i].sessionId = hook.sessionStart

\* a later session holds an event although an earlier one recorded events
C11_Witness == hook.isCapturing /\ hook.startId > 1 /\ hook.events # << >>

\* C12: stopCapture changes nothing but the capturing flag, and while the
\* session is not capturing no input handler changes the event sequence, the
\* ring or the counters
C12_FrozenAfterStop ==
  /\ [StopStep(hook) EXCEPT !.isCapturing = hook.isCapturing] = hook
  /\ ~hook.isCapturing =>
       /\ \A key \in HookKeys : Recorded(KeyDownStep(hook, key)) = Recorded(hook)
       /\ \A key \in HookKeys : Recorded(KeyUpStep(hook, key)) = Recorded(hook)
       /\ \A n \in HookPasteLengths : Recorded(PasteStep(hook, n)) = Recorded(hook)
       /\ Recorded(CopyStep(hook)) = Recorded(hook)
       /\ Recorded(CutStep(hook)) = Recorded(hook)

\* a stopped session that holds recorded events
C12_Witness == ~hook.isCapturing /\ hook.events # << >> /\ hook.backspaceCount > 0

\* C13: the metadata object handed to the packager has contentHash and
\* signature both null or both non-null, in every state
C13_HashSignaturePaired ==
  (session.metadata.contentHash = Null) <=> (session.metadata.signature = Null)

\* the log of scenario A has been scored
EvenLogScored ==
  /\ result.status = "scored"
  /\ Count(session.metadata.events, IsKeyDown) >= ScenarioKeys
  /\ Count(session.metadata.events, IsBackspaceDown) = ScenarioBackspaces
  /\ Count(session.metadata.events, IsPaste) = 0

\* C14 as stated: scenario A gets the consistent-rhythm anomaly and the
\* label SUSPICIOUS, a behavioral score of 40 to 59
C14_ScenarioSuspicious ==
  result.status = "scored" =>
    /\ "Extremely consistent typing rhythm detected"
          \in Range(result.biometricAnalysis.anomalies)
    /\ result.biometricAnalysis.verdict = "SUSPICIOUS"
    /\ result.biometricAnalysis.humanScore \in 40..59

\* C14 amended: scenario A gets the consistent-rhythm anomaly as its only
\* anomaly, a behavioral score of 100 - 30 = 70 and the label LIKELY_HUMAN
C14_ScenarioLikelyHuman ==
  result.status = "scored" =>
    /\ result.biometricAnalysis.anomalies = <<"Extremely consistent typing rhythm detected">>
    /\ result.biometricAnalysis.verdict = "LIKELY_HUMAN"
    /\ result.biometricAnalysis.humanScore = 100 - RhythmPenalty

C14_Witness == EvenLogScored /\ result.biometricAnalysis.metrics.timingVariance = 0

\* the archive read holds one paste of ScenarioPasteLength characters and a
\* final text of that length
IsPasteOnly(metadata) ==
  /\ Len(metadata.events) = 1
  /\ IsPaste(metadata.events[1])
  /\ metadata.events[1].pasteLength = ScenarioPasteLength
  /\ Len(metadata.finalText) = ScenarioPasteLength

\* C15: the analysis of scenario B carries the red flag 'Significant paste
\* operations detected' and its verdict is neither verified-human nor
\* mixed-content
C15_PasteScenario ==
  (result.status = "ok" /\ IsPasteOnly(call.metadata)) =>
    /\ "Significant paste operations detected" \in Range(result.aiAnalysis.redFlags)
    /\ result.verdict \in {"paste_detected", "ai_detected", "invalid"}

\* scenario B analyzed with a signature the verifier accepts
C15_Witness == result.status = "ok" /\ IsPasteOnly(call.metadata) /\ call.cryptoValid

\* stddev/mean of the inter-keystroke intervals of the features below p/q
\* (0 when there are no intervals)
RhythmBelow(features, p, q) ==
  \/ features.rhythmConsistency = << >>
  \/ CoefficientBelow(features.rhythmConsistency, p, q)

\* the rule table of the AI-likelihood scorer
RuleTableScore(features) ==
  Min(100,
      (IF RhythmBelow(features, 3, 10) THEN 25
       ELSE IF RhythmBelow(features, 5, 10) THEN 15 ELSE 0)
      + (IF features.burstPattern.num * 10 > features.burstPattern.den THEN 20 ELSE 0)
      + (IF features.backspaceRatio.num * 50 < features.backspaceRatio.den THEN 15 ELSE 0)
      + (IF features.pasteRatio.num * 10 > features.pasteRatio.den THEN 20 ELSE 0)
      + (IF features.eventDensity.num > 2 * features.eventDensity.den THEN 10 ELSE 0)
      + (IF /\ features.thinkingPauses < 2
            /\ features.avgKeyInterval.num < 200 * features.avgKeyInterval.den
         THEN 10 ELSE 0))

\* C16: the AI-likelihood score of a log is the capped sum of the triggered
\* weights of the rule table, the rhythm rule taken on stddev/mean of the
\* inter-keystroke intervals
C16_ScoreFollowsTable ==
  result.status = "scored" =>
    result.aiProbability = RuleTableScore(extractFeatures(session.metadata))

\* C17: the content-mismatch indicator fires exactly when the text
\* reconstructed from the single-character key-downs differs from the raw
\* text stored in the archive
C17_ContentCheckRaw ==
  result.status = "ok" =>
    (("Content does not match recorded events"
         \in Range(TamperWarnings(call.metadata, call.manifest, call.text)))
       <=> (reconstructContentFromEvents(call.metadata.events) # file.content))

\* the confidence of C18: the backspace ratio is taken over the key-down
\* events of the session
ClaimedConfidence(h) ==
  LET keyDowns == Count(h.events, IsKeyDown)
      backspaces == h.backspaceCount
      ratioZero == keyDowns = 0 \/ backspaces = 0
      ratioMid == keyDowns > 0 /\ 20 * backspaces > keyDowns /\ 5 * backspaces < keyDowns
      variance == h.stats.variance
      score == 100 - PastePenaltyLive * h.pasteCount
                   + (IF ratioMid THEN 10 ELSE IF ratioZero THEN 0 - 20 ELSE 0)
                   + (IF ~VarianceAtMost(variance, 20) /\ VarianceAtMost(variance, 79) THEN 15
                      ELSE IF VarianceAtMost(variance, 5) THEN 0 - 25 ELSE 0)
                   + (IF h.stats.thinkingPauses > 2 THEN 10 ELSE 0)
  IN  Max(0, Min(100, score))

\* C18: while capturing, the live humanConfidence is the clamped sum of the
\* heuristic, with the backspace ratio over the session's key-down events
C18_ConfidenceHeuristic ==
  hook.isCapturing => hook.stats.humanConfidence = ClaimedConfidence(hook)

C20_StatusTracksCreation ==
  page.creating > 0 => page.downloadStatus = "processing"

\* the verdict C21 gives for a behavioral score and an AI likelihood
ThresholdVerdict(behavioral, aiProbability) ==
  LET combinedScore == IF behavioral - aiProbability > 0 THEN behavioral - aiProbability ELSE 0
      adjusted == combinedScore - (IF aiProbability > 70 THEN 30
                                   ELSE IF aiProbability > 50 THEN 15 ELSE 0)
  IN  IF adjusted >= 75 THEN "verified_human"
      ELSE IF adjusted >= 50 THEN "mixed_content"
      ELSE IF adjusted >= 25 THEN "paste_detected"
      ELSE "ai_detected"

\* C21: for a crypto-valid, untampered archive the verdict is the threshold
\* of max(0, behavioral - aiProbability), less 30 when aiProbability > 70,
\* else less 15 when aiProbability > 50
C21_VerdictThresholds ==
  (result.status = "verdict" /\ result.isValid) =>
    result.verdict = ThresholdVerdict(session.behavioral, session.aiProbability)

\* a valid archive whose verdict the AI adjustment decides
C21_Witness ==
  /\ result.status = "verdict"
  /\ result.isValid
  /\ session.aiProbability > 50
  /\ result.humanScore >= 25
  /\ result.verdict = "ai_detected"

\* the rule table of C22, its key events being the key-down events
KeyDownRuleTable(events) ==
  LET keys == Count(events, IsKeyDown)
      pastes == Count(events, IsPaste)
      backspaces == Count(events, IsBackspaceDown)
      variance == calculateVariance(KeyDownTimings(events))
      duration == IF Len(events) > 0
                  THEN events[Len(events)].absoluteTime - events[1].absoluteTime ELSE 0
      score == 100 - 10 * pastes
                   - (IF variance < 1000 /\ keys > 20 THEN 30 ELSE 0)
                   - (IF keys * 1000 > 15 * Max(duration, 1000) THEN 20 ELSE 0)
                   - (IF backspaces * 50 < Max(keys, 1) /\ keys > 50 THEN 15 ELSE 0)
  IN  Max(0, Min(100, score))

ThresholdLabel(score) ==
  IF score >= 80 THEN "VERIFIED_HUMAN"
  ELSE IF score >= 60 THEN "LIKELY_HUMAN"
  ELSE IF score >= 40 THEN "SUSPICIOUS"
  ELSE IF score >= 20 THEN "LIKELY_AI"
  ELSE "DETECTED_AI"

\* C22: the behavioral score is the clamped rule table over paste events,
\* interval variance, key-down events per second and Backspace ratio, and
\* the label is its 80/60/40/20 threshold
C22_BehavioralRuleTable ==
  result.status = "analyzed" =>
    /\ result.biometricAnalysis.humanScore = KeyDownRuleTable(session.metadata.events)
    /\ result.biometricAnalysis.verdict =
         ThresholdLabel(KeyDownRuleTable(session.metadata.events))

ScoringRules == {"consistency", "burst", "backspace", "paste", "density", "pauses"}

\* the condition under which predictAIProbability adds points for a rule
RuleFires(rule, features) ==
  CASE rule = "consistency" -> ConsistencyBelow(features, 5, 10)
    [] rule = "burst" -> features.burstPattern.num * 10 > features.burstPattern.den
    [] rule = "backspace" -> features.backspaceRatio.num * 50 < features.backspaceRatio.den
    [] rule = "paste" -> features.pasteRatio.num * 10 > features.pasteRatio.den
    [] rule = "density" -> features.eventDensity.num > 2 * features.eventDensity.den
    [] rule = "pauses" -> /\ features.thinkingPauses < 2
                          /\ features.avgKeyInterval.num < 200 * features.avgKeyInterval.den

\* the rules that added points to aiProbability for these features
TriggeredRules(features) == {rule \in ScoringRules : RuleFires(rule, features)}

\* the rule a red-flag string speaks of
RuleOfFlag(flag) ==
  CASE flag = "Extremely consistent typing rhythm detected" -> "consistency"
    [] flag = "Burst typing pattern suggests automated input" -> "burst"
    [] flag = "Very few corrections made, unusual for human typing" -> "backspace"
    [] flag = "Significant paste operations detected" -> "paste"
    [] flag = "Lack of natural thinking pauses" -> "pauses"
    [] OTHER -> "none"

\* C23: the red flags of analyzeForAI are those of the rules that added
\* points to aiProbability, one flag per triggered rule
C23_RedFlagsMatchRules ==
  result.status = "analyzed" =>
    LET redFlags == result.aiAnalysis.redFlags
        rules == TriggeredRules(result.aiAnalysis.features)
    IN  /\ {RuleOfFlag(redFlags[i]) : i \in 1..Len(redFlags)} = rules
        /\ Len(redFlags) = Cardinality(rules)

\* C30: the behavioral score, the AI likelihood, the combined score and the
\* AI confidence of an analysis all lie between 0 and 100
C30_ScoresInRange ==
  result.status = "analyzed" =>
    /\ result.biometricAnalysis.humanScore \in ScoreRange
    /\ result.aiAnalysis.aiProbability \in ScoreRange
    /\ result.humanScore \in ScoreRange
    /\ result.aiAnalysis.confidence \in ScoreRange

\* a log whose penalties exceed 100 and whose AI likelihood exceeds its
\* behavioral score
C30_Witness ==
  /\ result.status = "analyzed"
  /\ Count(session.metadata.events, IsPaste) * PastePenalty > 100
  /\ result.biometricAnalysis.humanScore = 0
  /\ result.aiAnalysis.aiProbability > result.biometricAnalysis.humanScore
  /\ result.humanScore = 0

IsRingKeyDown(e) ==
  e.type = "keydown" /\ (Len(e.key) = 1 \/ e.key = "Backspace" \/ e.key = "Enter")

\* C24: the rhythm ring never holds more than 100 entries, and its entries
\* are, oldest first, the most recent key-downs of single-character keys,
\* Backspace and Enter; key-downs of other keys add no entry
C24_RingBounded ==
  LET downs == SelectSeq(hook.events, IsRingKeyDown)
      ring == hook.keyTimings
      evicted == Len(downs) - Len(ring)
  IN  /\ Len(ring) <= 100
      /\ Len(ring) = (IF Len(downs) <= 100 THEN Len(downs) ELSE 100)
      /\ \A i \in 1..Len(ring) :
            /\ ring[i].key = downs[evicted + i].key
            /\ ring[i].timestamp = downs[evicted + i].timestamp

\* more than 100 qualifying key-downs and a modifier key-down were handled
C24_Witness ==
  /\ Len(SelectSeq(hook.events, IsRingKeyDown)) > 100
  /\ Len(hook.keyTimings) = 100
  /\ Count(hook.events, IsOtherKeyDown) = 1
  /\ hook.keyTimings[1].timestamp > hook.events[1].timestamp

\* the reader ran its screens on an archive that passes the checks made
\* before the timestamp screen and is not older than the replay window
ReachedTimestampScreen ==
  /\ call.n > 0
  /\ call.pc # "reading"
  /\ "metadata.json" \in Range(call.steps)
  /\ file.hasMetadata
  /\ validateEventStructure(file.metadata.events)
  /\ call.readAt - file.metadata.sessionStart <= MaxAge

\* C25: such an archive is rejected if and only if some timestamp is lower
\* than its predecessor's or some absoluteTime is more than 60 seconds after
\* the verification time
C25_TimestampScreen ==
  ReachedTimestampScreen =>
    LET events == file.metadata.events
    IN  (call.pc = "idle" /\ result = Failed)
          <=> \/ \E i \in 2..Len(events) : events[i].timestamp < events[i - 1].timestamp
              \/ \E i \in 1..Len(events) : events[i].absoluteTime > call.readAt + 60000

\* the manifests that differ from m in the analysis block, the fileInfo or
\* the creation time at most
ManifestVariants(m) ==
  { [m EXCEPT !.analysis = a, !.fileInfo = f, !.created = c] :
      a \in {m.analysis, FlatteringAnalysis(m.analysis),
             [m.analysis EXCEPT !.humanScore = 0, !.verdict = "DETECTED_AI"]},
      f \in {m.fileInfo, [m.fileInfo EXCEPT !.eventCount = @ + 1],
             [m.fileInfo EXCEPT !.textLength = @ + 1]},
      c \in {m.created, m.created - 1, m.created + MaxAge} }

SameFindings(r1, r2) ==
  /\ r1.isValid = r2.isValid
  /\ r1.isTampered = r2.isTampered
  /\ r1.humanScore = r2.humanScore
  /\ r1.verdict = r2.verdict
  /\ r1.anomalies = r2.anomalies

\* C26: the result of an analysis is the result the same archive gets with
\* any other analysis block, fileInfo or creation time in its manifest
C26_ManifestNotTrusted ==
  [][(call.pc = "verifying" /\ call'.pc = "idle") =>
       \A mv \in ManifestVariants(call.manifest) :
          SameFindings(result', AnalysisOf(call.text, call.metadata, mv))]_vars

\* an archive whose manifest states a perfect score was analyzed and scored
\* lower
C26_Witness ==
  /\ CallEnded
  /\ result.status = "ok"
  /\ file.edited
  /\ call.manifest.analysis.humanScore = 100
  /\ call.manifest.analysis.verdict = "VERIFIED_HUMAN"
  /\ result.biometricAnalysis.humanScore < 100
  /\ result.humanScore < 100

\* C27: after every handled action the backspace counter is the number of
\* Backspace key-down events in the event sequence and the paste counter is
\* the number of paste events in it
C27_CountersFollowEvents ==
  /\ hook.backspaceCount =
       Cardinality({i \in 1..Len(hook.events) :
                      hook.events[i].type = "keydown" /\ hook.events[i].key = "Backspace"})
  /\ hook.pasteCount =
       Cardinality({i \in 1..Len(hook.events) : hook.events[i].type = "paste"})

\* a session that recorded one Backspace and one paste
C27_Witness ==
  /\ hook.isCapturing
  /\ hook.backspaceCount = 1
  /\ hook.pasteCount = 1
  /\ Len(hook.events) = 2

\* C28: the metadata produced for a typed document holds, in its event log,
\* the key-down of every character of the text
C28_FirstKeystrokeCaptured ==
  LET downs == SelectSeq(session.metadata.events, IsSingleCharKeyDown)
  IN  session.metadata.finalText = [i \in 1..Len(downs) |-> downs[i].key]

\* the hash and signature slots of an archive agree with each other and
\* with its content member
FieldsBound(f) ==
  /\ f.manifest.contentHash = f.metadata.contentHash
  /\ f.metadata.contentHash = createHash(f.content)
  /\ f.manifest.signature = f.metadata.signature
  /\ f.metadata.contentHash # Null
  /\ f.metadata.signature # Null

\* C29: when createHumanSignFile produces the archive, its manifest and
\* metadata carry the same hash, the hash of content.txt, and the same
\* signature; and no step of the packaging changes the events or the final
\* text of the metadata, which the archive carries as they were
C29_FieldsBoundAtPackaging ==
  [][/\ (pkg.pc = "zipping" /\ pkg'.pc = "done") =>
          /\ FieldsBound(file')
          /\ file'.metadata.events = session.metadata.events
          /\ file'.metadata.finalText = session.metadata.finalText
     /\ (pkg'.pc # pkg.pc) =>
          /\ session'.metadata.events = session.metadata.events
          /\ session'.metadata.finalText = session.metadata.finalText]_vars

\* a produced archive of a session with events
C29_Witness ==
  /\ pkg.pc = "done"
  /\ Unmodified
  /\ Len(file.metadata.events) > 0
  /\ FieldsBound(file)
  /\ file.metadata.events = session.metadata.events

====
